---- MODULE Spec2Model ----
(***************************************************************************)
(* Model of the query handlers of src/app.py (a Flask service that reads   *)
(* two tabs of a spreadsheet through gspread):                             *)
(*   get_latest_from_health_tab / healthdata_latest   (date-based latest)  *)
(*   get_latest_from_work_tab                         (append-order latest)*)
(*   healthdata_compare                               (last two rows)      *)
(*   daily_summary                                    (prefix lookup/join) *)
(* The spreadsheet is the environment: it is edited while a request runs.  *)
(* Every gspread call (get_all_values, row_values) is one atomic read of   *)
(* the sheet as it is at that moment.                                      *)
(*                                                                         *)
(* Cells are strings.  The column names and the fixed sentences of the     *)
(* source are Japanese text; string literals here are ASCII stand-ins and  *)
(* the definition of each one names the source line it stands for.         *)
(***************************************************************************)
EXTENDS Integers, Sequences, FiniteSets, TLC

VARIABLES
    sheet,        \* tab name -> grid (sequence of rows, each a sequence of cells)
    pc,           \* position of the request being served
    kind,         \* which endpoint the request is for: health_latest,
                  \* work_latest, compare or daily_summary
    args,         \* request parameters (the date of daily_summary)
    all_rows,     \* result of the first get_all_values() of the handler
    headers,      \* result of the first row_values(2) of the handler
    all_work_rows,\* daily_summary: get_all_values() of the work tab
    work_headers, \* daily_summary: row_values(2) of the work tab
    picked,       \* the rows the handler selected (latest_row, today_row, ...)
    response      \* the HTTP response produced

vars == <<sheet, pc, kind, args, all_rows, headers, all_work_rows,
          work_headers, picked, response>>

-----------------------------------------------------------------------------
(* Bounds of the model *)

\* the two tabs together hold at most this many data rows
MaxRows == 3

-----------------------------------------------------------------------------
(* Python string primitives used by the handlers *)

Char(s, i) == SubSeq(s, i, i)

\* whitespace as seen by str.strip() / str.split() (the blank is the only
\* whitespace character that occurs in the cells of this model)
IsSpace(c) == c = " "

IsDigit(c) == c \in {"0", "1", "2", "3", "4", "5", "6", "7", "8", "9"}

DigitVal(c) ==
    CASE c = "0" -> 0 [] c = "1" -> 1 [] c = "2" -> 2 [] c = "3" -> 3
      [] c = "4" -> 4 [] c = "5" -> 5 [] c = "6" -> 6 [] c = "7" -> 7
      [] c = "8" -> 8 [] c = "9" -> 9

AllDigits(s) == \A i \in 1..Len(s) : IsDigit(Char(s, i))

RECURSIVE IntOf(_)
IntOf(s) ==
    IF Len(s) = 0 THEN 0
    ELSE 10 * IntOf(SubSeq(s, 1, Len(s) - 1)) + DigitVal(Char(s, Len(s)))

NonSpaceAt(s) == {i \in 1..Len(s) : ~IsSpace(Char(s, i))}

Min(S) == CHOOSE m \in S : \A x \in S : m <= x
Max(S) == CHOOSE m \in S : \A x \in S : x <= m

\* str.strip()
strip(s) ==
    IF NonSpaceAt(s) = {} THEN ""
    ELSE SubSeq(s, Min(NonSpaceAt(s)), Max(NonSpaceAt(s)))

\* str.startswith(prefix)
startswith(s, prefix) ==
    /\ Len(prefix) <= Len(s)
    /\ SubSeq(s, 1, Len(prefix)) = prefix

\* cell_value.split()[0]: the first whitespace-delimited token.  On a string
\* with no token, split() is the empty list and [0] raises IndexError.
split_first(s) ==
    IF NonSpaceAt(s) = {} THEN [raised |-> "IndexError"]
    ELSE LET b == Min(NonSpaceAt(s))
             after == {i \in b..Len(s) : IsSpace(Char(s, i))}
             e == IF after = {} THEN Len(s) ELSE Min(after) - 1
         IN  [raised |-> "", value |-> SubSeq(s, b, e)]

IsLeap(y) == (y % 4 = 0 /\ y % 100 # 0) \/ y % 400 = 0

DaysInMonth(y, m) ==
    IF m = 2 THEN (IF IsLeap(y) THEN 29 ELSE 28)
    ELSE IF m \in {4, 6, 9, 11} THEN 30 ELSE 31

\* datetime.strptime(s, "%Y<sep>%m<sep>%d"): four digits, the separator, a
\* month of one or two digits in 1..12, the separator, a day of one or two
\* digits in 1..31, nothing after it, and a day the month has.  Anything else
\* raises ValueError.  The date is returned as the number yyyymmdd, which
\* orders as datetime does.
strptime(s, sep) ==
    LET n == Len(s)
        seps == {i \in 6..n : Char(s, i) = sep}
        p2 == Min(seps)
        mm == SubSeq(s, 6, p2 - 1)
        dd == SubSeq(s, p2 + 1, n)
        y == IntOf(SubSeq(s, 1, 4))
        m == IntOf(mm)
        d == IntOf(dd)
        wellFormed ==
            /\ n >= 5
            /\ AllDigits(SubSeq(s, 1, 4))
            /\ Char(s, 5) = sep
            /\ seps # {}
            /\ Len(mm) \in {1, 2} /\ AllDigits(mm) /\ m \in 1..12
            /\ Len(dd) \in {1, 2} /\ AllDigits(dd) /\ d \in 1..31
            /\ y >= 1
            /\ d <= DaysInMonth(y, m)
    IN  IF wellFormed THEN [raised |-> "", value |-> y * 10000 + m * 100 + d]
        ELSE [raised |-> "ValueError"]

-----------------------------------------------------------------------------
(* Column names and fixed sentences of the source *)

\* header of the first column (line 130)
COL_TIMESTAMP == "timestamp"
\* the sleep-hours column read by the summary comment (line 293)
COL_SLEEP == "sleep"
\* the mood column read by the summary comment (line 294)
COL_MOOD == "mood"
\* the morning-activity column read by the summary comment (line 297)
COL_AM == "am"
\* the afternoon-activity column read by the summary comment (line 297)
COL_PM == "pm"

\* the fixed advice sentence (line 206): "no big change from the day before"
ADVICE_FIXED == "stable"

-----------------------------------------------------------------------------
(* Records *)

\* {headers[i]: row[i] if i < len(row) else "" for i in range(len(headers))}
\* A dict keeps one entry per key; a later duplicate column name overwrites
\* the earlier one.
RecordOf(hdr, row) ==
    [k \in {hdr[i] : i \in 1..Len(hdr)} |->
        LET i == Max({j \in 1..Len(hdr) : hdr[j] = k})
        IN  IF i <= Len(row) THEN row[i] ELSE ""]

\* {}
EmptyDict == [k \in {} |-> ""]

\* dict.get(key, default)
DictGet(d, key, default) == IF key \in DOMAIN d THEN d[key] ELSE default

\* all_rows[2:]
RowsFrom3(rows) == SubSeq(rows, 3, Len(rows))

\* ws.row_values(2) on a grid: the second row, or nothing when there is none
RowValues2(grid) == IF Len(grid) >= 2 THEN grid[2] ELSE <<>>

\* the key filter without the strip(): a whitespace-only key passes
HasKey_no_strip(row) == Len(row) >= 1 /\ row[1] # ""

\* the filter "len(row) >= 1 and row[0].strip()"
HasKey(row) == Len(row) >= 1 /\ strip(row[1]) # ""

\* data_rows of the three handlers that filter on the key cell:
\* [row for row in all_rows[2:] if len(row) >= 1 and row[0].strip()]
data_rows(rows) == SelectSeq(RowsFrom3(rows), HasKey)

-----------------------------------------------------------------------------
(* get_latest_from_health_tab *)

\* parse_date(cell_value): the first token, parsed as %Y/%m/%d
parse_date(cell_value) ==
    LET tok == split_first(cell_value)
    IN  IF tok.raised # "" THEN tok ELSE strptime(tok.value, "/")

\* the loop that keeps the rows whose date parses and skips a ValueError
HasValidDate(row) == parse_date(row[1]).raised = ""

\* the loop without its try/except: one unparsable row loses every row
valid_date_rows_uncaught(rows) ==
    IF \A i \in 1..Len(rows) : HasValidDate(rows[i]) THEN rows ELSE <<>>

valid_date_rows(rows) == SelectSeq(rows, HasValidDate)

\* an exception of parse_date other than ValueError is not caught by the loop
ParseEscapes(rows) ==
    \E i \in 1..Len(rows) : parse_date(rows[i][1]).raised \notin {"", "ValueError"}

\* max(valid_date_rows, key=lambda x: x[1]): Python's max returns the first
\* element among those with the greatest key
MaxByDate(rows) ==
    LET date(i) == parse_date(rows[i][1]).value
        best == {i \in 1..Len(rows) : \A j \in 1..Len(rows) : date(j) <= date(i)}
    IN  rows[Min(best)]

\* lines 54-78: the outcome of everything before the header is read
HealthLatestRow(rows) ==
    LET data == data_rows(rows)
    IN  IF data = <<>> THEN [raised |-> "ValueError"]
        ELSE IF ParseEscapes(data) THEN [raised |-> "IndexError"]
        ELSE IF valid_date_rows(data) = <<>> THEN [raised |-> "ValueError"]
        ELSE [raised |-> "", row |-> MaxByDate(valid_date_rows(data))]

-----------------------------------------------------------------------------
(* get_latest_from_work_tab *)

\* lines 102-109: data_rows[-1]
WorkLatestRow(rows) ==
    LET data == data_rows(rows)
    IN  IF data = <<>> THEN [raised |-> "ValueError"]
        ELSE [raised |-> "", row |-> data[Len(data)]]

-----------------------------------------------------------------------------
(* healthdata_compare *)

\* line 199
today_row(data) == data[Len(data)]

\* the comparison row taken from the top of the table instead of data_rows[-2]
yesterday_row_first(data) == data[1]

\* line 200
yesterday_row(data) == data[Len(data) - 1]

\* the three sentences of a mood-based comparator
ADVICE_IMPROVED == "improved"
ADVICE_DECLINED == "declined"
ADVICE_STABLE == ADVICE_FIXED

\* a value float() accepts, among the cells of this model: a run of digits
IsNumber(s) == Len(s) >= 1 /\ AllDigits(s)

\* an advice that compares the mood column of the two records
advice_by_mood(today_dict, yesterday_dict) ==
    LET t == DictGet(today_dict, COL_MOOD, "")
        y == DictGet(yesterday_dict, COL_MOOD, "")
    IN  IF IsNumber(t) /\ IsNumber(y) /\ IntOf(t) > IntOf(y) THEN ADVICE_IMPROVED
        ELSE IF IsNumber(t) /\ IsNumber(y) /\ IntOf(t) < IntOf(y) THEN ADVICE_DECLINED
        ELSE ADVICE_STABLE

\* line 206: the advice is a fixed sentence
advice(today_dict, yesterday_dict) == ADVICE_FIXED

-----------------------------------------------------------------------------
(* daily_summary *)

\* lines 251-256: the date parameter is required and must parse as %Y-%m-%d
DateAccepted(date_str) ==
    date_str # "" /\ strptime(date_str, "-").raised = ""

\* row[0] of the comprehensions of lines 270 and 281 raises IndexError on a
\* row with no cells
KeyReadRaises(rows) ==
    \E i \in 1..Len(RowsFrom3(rows)) : Len(RowsFrom3(rows)[i]) = 0

\* [row for row in all_rows[2:] if row[0].startswith(date_str)]
rows_of_date(rows, date_str) ==
    LET Match(row) == startswith(row[1], date_str)
    IN  SelectSeq(RowsFrom3(rows), Match)

\* lines 291-297
comment(date_str, health_dict, work_dict) ==
    LET base == date_str \o " summary: sleep "
                    \o DictGet(health_dict, COL_SLEEP, "-") \o ", mood "
                    \o DictGet(health_dict, COL_MOOD, "-") \o "."
    IN  IF work_dict # EmptyDict
        THEN base \o " am: " \o DictGet(work_dict, COL_AM, "-")
                  \o ", pm: " \o DictGet(work_dict, COL_PM, "-") \o "."
        ELSE base

-----------------------------------------------------------------------------
(* The spreadsheet and the requests the model draws from *)

HEALTH_TAB == "health"   \* default tab name of lines 142, 181, 248
WORK_TAB == "work"       \* default tab name of line 249
Tabs == {HEALTH_TAB, WORK_TAB}

TitleRow == <<"title">>
HealthHeader == <<COL_TIMESTAMP, COL_SLEEP, COL_MOOD>>
\* a header with a repeated column name and fewer columns
DupHeader == <<COL_MOOD, COL_MOOD>>
WorkHeader == <<COL_TIMESTAMP, COL_AM, COL_PM>>
ShortHeader == <<COL_TIMESTAMP>>

HeaderPool(tab) ==
    IF tab = HEALTH_TAB THEN {HealthHeader, DupHeader}
    ELSE {WorkHeader, ShortHeader}

\* Rows as get_all_values() may deliver them.  The grid is not assumed to be
\* rectangular: rows shorter and longer than the header occur, and so do rows
\* with a blank key cell or with no cell at all, the rows the handlers' own
\* "len(row) >= 1 and row[0].strip()" filter is written for.
RowPool(tab) ==
    IF tab = HEALTH_TAB
    THEN { <<"2025/06/02 09:17:00", "6", "5">>,
           <<"2025/6/2", "7">>,
           <<"2025/06/03", "8", "7", "x">>,
           <<"2025-06-02", "7", "7">>,
           <<"not-a-date", "5", "x">>,
           <<"  ", "9", "9">>,
           <<"">>,
           <<>> }
    ELSE { <<"2025-06-02 10:00", "mail", "review">>,
           <<"n/a", "call">>,
           <<" ">>,
           <<>> }

DatePool == {"2025-06-02", "2025-06-03", "2025/06/02", ""}

NoResponse == [status |-> 0]

Init ==
    /\ sheet = [t \in Tabs |->
                 <<TitleRow, IF t = HEALTH_TAB THEN HealthHeader ELSE WorkHeader>>]
    /\ pc = "idle"
    /\ kind = "none"
    /\ args = [date |-> ""]
    /\ all_rows = <<>>
    /\ headers = <<>>
    /\ all_work_rows = <<>>
    /\ work_headers = <<>>
    /\ picked = <<>>
    /\ response = NoResponse

\* number of data rows the sheet holds
DataRowCount == Len(sheet[HEALTH_TAB]) + Len(sheet[WORK_TAB]) - 4

-----------------------------------------------------------------------------
(* The environment: somebody edits the spreadsheet.  Edits interleave with  *)
(* the steps of a running handler.  Once the response is produced the       *)
(* handler holds nothing of the sheet, so edits are left out until the next *)
(* request starts.                                                          *)

reqvars == <<pc, kind, args, all_rows, headers, all_work_rows, work_headers,
             picked, response>>

\* a form answer is appended to a tab
AppendRow ==
    /\ pc # "done"
    /\ DataRowCount < MaxRows
    /\ \E t \in Tabs : \E row \in RowPool(t) :
          sheet' = [sheet EXCEPT ![t] = Append(@, row)]
    /\ UNCHANGED reqvars

\* the header row (row 2) of a tab is rewritten
SetHeader ==
    /\ pc # "done"
    /\ \E t \in Tabs : \E h \in HeaderPool(t) :
          /\ sheet[t][2] # h
          /\ sheet' = [sheet EXCEPT ![t][2] = h]
    /\ UNCHANGED reqvars

-----------------------------------------------------------------------------
(* Responses *)

Ok(body) == [status |-> 200, body |-> body]
\* the "except Exception" branch of every endpoint
ServerError(error_type) == [status |-> 500, error_type |-> error_type]
ClientError(status, error) == [status |-> status, error |-> error]

Respond(r) == response' = r /\ pc' = "done"

-----------------------------------------------------------------------------
(* GET /healthdata/latest -> get_latest_from_health_tab *)

\* lines 48-78: get_all_values(), the filters and the choice of latest_row
HealthLatestRows ==
    /\ pc = "idle"
    /\ kind' = "health_latest"
    /\ args' = [date |-> ""]
    /\ all_rows' = sheet[HEALTH_TAB]
    /\ LET r == HealthLatestRow(sheet[HEALTH_TAB])
       IN  IF r.raised # ""
           THEN /\ Respond(ServerError(r.raised))
                /\ picked' = <<>>
           ELSE /\ pc' = "health_headers"
                /\ picked' = <<r.row>>
                /\ response' = NoResponse
    /\ headers' = <<>> /\ all_work_rows' = <<>> /\ work_headers' = <<>>
    /\ UNCHANGED sheet

\* lines 80-86: row_values(2) and the record
HealthLatestHeaders ==
    /\ pc = "health_headers"
    /\ headers' = RowValues2(sheet[HEALTH_TAB])
    /\ Respond(Ok(RecordOf(RowValues2(sheet[HEALTH_TAB]), picked[1])))
    /\ UNCHANGED <<sheet, kind, args, all_rows, all_work_rows, work_headers, picked>>

-----------------------------------------------------------------------------
(* get_latest_from_work_tab *)

\* lines 96-109
WorkLatestRows ==
    /\ pc = "idle"
    /\ kind' = "work_latest"
    /\ args' = [date |-> ""]
    /\ all_rows' = sheet[WORK_TAB]
    /\ LET r == WorkLatestRow(sheet[WORK_TAB])
       IN  IF r.raised # ""
           THEN /\ Respond(ServerError(r.raised))
                /\ picked' = <<>>
           ELSE /\ pc' = "work_headers"
                /\ picked' = <<r.row>>
                /\ response' = NoResponse
    /\ headers' = <<>> /\ all_work_rows' = <<>> /\ work_headers' = <<>>
    /\ UNCHANGED sheet

\* lines 111-117
WorkLatestHeaders ==
    /\ pc = "work_headers"
    /\ headers' = RowValues2(sheet[WORK_TAB])
    /\ Respond(Ok(RecordOf(RowValues2(sheet[WORK_TAB]), picked[1])))
    /\ UNCHANGED <<sheet, kind, args, all_rows, all_work_rows, work_headers, picked>>

-----------------------------------------------------------------------------
(* GET /healthdata/compare -> healthdata_compare *)

\* lines 189-195
CompareRows ==
    /\ pc = "idle"
    /\ kind' = "compare"
    /\ args' = [date |-> ""]
    /\ all_rows' = sheet[HEALTH_TAB]
    /\ LET data == data_rows(sheet[HEALTH_TAB])
       IN  IF Len(data) < 2
           THEN /\ Respond(ClientError(400, "no rows to compare"))
                /\ picked' = <<>>
           ELSE /\ pc' = "compare_headers"
                /\ picked' = <<today_row(data), yesterday_row(data)>>
                /\ response' = NoResponse
    /\ headers' = <<>> /\ all_work_rows' = <<>> /\ work_headers' = <<>>
    /\ UNCHANGED sheet

\* lines 198-212
CompareHeaders ==
    /\ pc = "compare_headers"
    /\ headers' = RowValues2(sheet[HEALTH_TAB])
    /\ LET today_dict == RecordOf(RowValues2(sheet[HEALTH_TAB]), picked[1])
           yesterday_dict == RecordOf(RowValues2(sheet[HEALTH_TAB]), picked[2])
       IN  Respond(Ok([today |-> today_dict,
                       yesterday |-> yesterday_dict,
                       advice |-> advice(today_dict, yesterday_dict)]))
    /\ UNCHANGED <<sheet, kind, args, all_rows, all_work_rows, work_headers, picked>>

-----------------------------------------------------------------------------
(* GET /daily/summary -> daily_summary *)

\* lines 245-272: the date is checked, then the health tab is read and
\* searched for the rows that start with date_str
DailyHealthRows ==
    /\ pc = "idle"
    /\ kind' = "daily_summary"
    /\ \E date_str \in DatePool :
          /\ args' = [date |-> date_str]
          /\ IF ~DateAccepted(date_str)
             THEN /\ Respond(ClientError(400, "date"))
                  /\ all_rows' = <<>>
                  /\ picked' = <<>>
             ELSE /\ all_rows' = sheet[HEALTH_TAB]
                  /\ IF KeyReadRaises(sheet[HEALTH_TAB])
                     THEN /\ Respond(ServerError("IndexError"))
                          /\ picked' = <<>>
                     ELSE LET health_rows == rows_of_date(sheet[HEALTH_TAB], date_str)
                          IN  IF health_rows = <<>>
                              THEN /\ Respond(ClientError(404, "no health data"))
                                   /\ picked' = <<>>
                              ELSE /\ pc' = "daily_health_headers"
                                   /\ picked' = <<health_rows[Len(health_rows)]>>
                                   /\ response' = NoResponse
    /\ headers' = <<>> /\ all_work_rows' = <<>> /\ work_headers' = <<>>
    /\ UNCHANGED sheet

\* lines 273-276
DailyHealthHeaders ==
    /\ pc = "daily_health_headers"
    /\ headers' = RowValues2(sheet[HEALTH_TAB])
    /\ pc' = "daily_work_rows"
    /\ UNCHANGED <<sheet, kind, args, all_rows, all_work_rows, work_headers,
                   picked, response>>

\* the response of lines 299-304
SummaryOf(date_str, health_dict, work_dict) ==
    Ok([date |-> date_str,
        health |-> health_dict,
        work |-> work_dict,
        comment |-> comment(date_str, health_dict, work_dict)])

\* lines 279-288: the work tab is read and searched
DailyWorkRows ==
    /\ pc = "daily_work_rows"
    /\ all_work_rows' = sheet[WORK_TAB]
    /\ IF KeyReadRaises(sheet[WORK_TAB])
       THEN /\ Respond(ServerError("IndexError"))
            /\ UNCHANGED picked
       ELSE LET work_rows == rows_of_date(sheet[WORK_TAB], args.date)
            IN  IF work_rows = <<>>
                THEN /\ Respond(SummaryOf(args.date,
                                          RecordOf(headers, picked[1]), EmptyDict))
                     /\ UNCHANGED picked
                ELSE /\ pc' = "daily_work_headers"
                     /\ picked' = Append(picked, work_rows[Len(work_rows)])
                     /\ UNCHANGED response
    /\ UNCHANGED <<sheet, kind, args, all_rows, headers, work_headers>>

\* lines 283-304
DailyWorkHeaders ==
    /\ pc = "daily_work_headers"
    /\ work_headers' = RowValues2(sheet[WORK_TAB])
    /\ Respond(SummaryOf(args.date, RecordOf(headers, picked[1]),
                         RecordOf(RowValues2(sheet[WORK_TAB]), picked[2])))
    /\ UNCHANGED <<sheet, kind, args, all_rows, headers, all_work_rows, picked>>

-----------------------------------------------------------------------------
(* The response has been sent; the next request starts from scratch *)

Finish ==
    /\ pc = "done"
    /\ pc' = "idle"
    /\ kind' = "none"
    /\ args' = [date |-> ""]
    /\ all_rows' = <<>> /\ headers' = <<>>
    /\ all_work_rows' = <<>> /\ work_headers' = <<>>
    /\ picked' = <<>>
    /\ response' = NoResponse
    /\ UNCHANGED sheet

Next ==
    \/ AppendRow
    \/ SetHeader
    \/ HealthLatestRows
    \/ HealthLatestHeaders
    \/ WorkLatestRows
    \/ WorkLatestHeaders
    \/ CompareRows
    \/ CompareHeaders
    \/ DailyHealthRows
    \/ DailyHealthHeaders
    \/ DailyWorkRows
    \/ DailyWorkHeaders
    \/ Finish

Spec == Init /\ [][Next]_vars

-----------------------------------------------------------------------------
(* Vocabulary of the properties *)

Done == pc = "done"
Succeeded == Done /\ response.status = 200

\* a row whose key cell is absent, empty or made of blanks only
BlankKey(row) ==
    Len(row) = 0 \/ \A i \in 1..Len(row[1]) : Char(row[1], i) = " "

\* positions of the data rows of a fetched grid whose key cell is not blank
KeyedAt(rows) == {i \in 3..Len(rows) : ~BlankKey(rows[i])}

\* positions of the keyed rows whose timestamp the handler's parser accepts
DatedAt(rows) == {i \in KeyedAt(rows) : parse_date(rows[i][1]).raised = ""}

DateAt(rows, i) == parse_date(rows[i][1]).value

\* positions of the data rows whose key cell starts with the given string
PrefixAt(rows, date_str) ==
    {i \in 3..Len(rows) : Len(rows[i]) >= 1 /\ startswith(rows[i][1], date_str)}

\* the date resolver of the specification: YYYY/MM/DD or YYYY-MM-DD, the
\* first token only; 0 stands for Unparsable
ResolveDate(value) ==
    LET tok == split_first(value)
    IN  IF tok.raised # "" THEN 0
        ELSE IF strptime(tok.value, "/").raised = "" THEN strptime(tok.value, "/").value
        ELSE IF strptime(tok.value, "-").raised = "" THEN strptime(tok.value, "-").value
        ELSE 0

ResolvedAt(rows) == {i \in KeyedAt(rows) : ResolveDate(rows[i][1]) # 0}

-----------------------------------------------------------------------------
(* C1 *)

\* C1: the header names and the data cells of every returned record come from
\* the same fetched snapshot of the tab: the header the handler pairs with a
\* row is row 2 of the grid that row was taken from.
C1_RecordFromOneSnapshot ==
    Succeeded =>
        /\ headers = RowValues2(all_rows)
        /\ (kind = "daily_summary" /\ Len(picked) = 2
               => work_headers = RowValues2(all_work_rows))

-----------------------------------------------------------------------------
(* C2 *)

\* C2: a data row with an absent, empty or whitespace-only key cell is never
\* the row a query returns, and it does not shift the latest and second-latest
\* rows: work latest answers with the last keyed row, compare with the last
\* two keyed rows, and both fail exactly when too few keyed rows exist.
C2_BlankKeyRowNeverReturned ==
    Done =>
        /\ \A n \in 1..Len(picked) : ~BlankKey(picked[n])
        /\ (kind \in {"health_latest", "work_latest"} =>
              (response.status = 200 <=> picked # <<>>))
        /\ (kind = "health_latest" /\ response.status = 200 =>
              \E i \in KeyedAt(all_rows) :
                  response.body = RecordOf(headers, all_rows[i]))
        /\ (kind = "work_latest" =>
              /\ response.status = 200 <=> KeyedAt(all_rows) # {}
              /\ response.status = 200 =>
                    response.body = RecordOf(headers, all_rows[Max(KeyedAt(all_rows))]))
        /\ (kind = "compare" =>
              /\ response.status = 200 <=> Cardinality(KeyedAt(all_rows)) >= 2
              /\ response.status = 200 =>
                    LET last == Max(KeyedAt(all_rows))
                        prev == Max(KeyedAt(all_rows) \ {last})
                    IN  /\ response.body.today = RecordOf(headers, all_rows[last])
                        /\ response.body.yesterday = RecordOf(headers, all_rows[prev]))
        /\ (kind = "daily_summary" /\ response.status = 200 =>
              /\ \E i \in KeyedAt(all_rows) :
                    response.body.health = RecordOf(headers, all_rows[i])
              /\ Len(picked) = 2 =>
                    \E i \in KeyedAt(all_work_rows) :
                        response.body.work = RecordOf(work_headers, all_work_rows[i]))

\* a compare that succeeded on a grid with a blank-key row lying after a keyed one
C2_Witness ==
    /\ Succeeded
    /\ kind = "compare"
    /\ \E i \in 3..Len(all_rows) :
          BlankKey(all_rows[i]) /\ i > Min(KeyedAt(all_rows))

-----------------------------------------------------------------------------
(* C3 *)

\* C3: health latest returns a row with the greatest resolved date and, when
\* several rows share that date, the last of them in grid order.
C3_TieKeepsLaterRow ==
    Succeeded /\ kind = "health_latest" =>
        LET top == {i \in DatedAt(all_rows) :
                       \A j \in DatedAt(all_rows) :
                           DateAt(all_rows, j) <= DateAt(all_rows, i)}
        IN  response.body = RecordOf(headers, all_rows[Max(top)])

-----------------------------------------------------------------------------
(* C4 *)

\* C4: a keyed row whose timestamp does not parse never aborts a query.  Health
\* latest skips it: it fails (with the handler's own ValueError) exactly when no
\* keyed row has a date, and otherwise answers with a row of greatest date
\* among those that have one.  Work latest counts it: it answers with the last
\* keyed row whether or not its timestamp parses.
C4_UnparsableRowSkippedNotFatal ==
    Done =>
        /\ (kind = "health_latest" =>
              /\ response.status = 500 <=> DatedAt(all_rows) = {}
              /\ response.status = 500 => response.error_type = "ValueError"
              /\ response.status = 200 =>
                    \E i \in DatedAt(all_rows) :
                        /\ \A j \in DatedAt(all_rows) :
                              DateAt(all_rows, j) <= DateAt(all_rows, i)
                        /\ response.body = RecordOf(headers, all_rows[i]))
        /\ (kind = "work_latest" /\ KeyedAt(all_rows) # {} =>
              /\ response.status = 200
              /\ response.body = RecordOf(headers, all_rows[Max(KeyedAt(all_rows))]))

\* health latest succeeded on a grid that holds a keyed row with no date
C4_Witness ==
    /\ Succeeded
    /\ kind = "health_latest"
    /\ KeyedAt(all_rows) \ DatedAt(all_rows) # {}

-----------------------------------------------------------------------------
(* C5 *)

\* C5: YYYY/MM/DD and YYYY-MM-DD timestamps resolve to the same calendar date
\* for every date-based operation: health latest counts the rows of either
\* format and answers with a row of greatest resolved date, and the daily
\* summary of a date finds a health row stamped with that date in either format.
C5_BothFormatsSameDay ==
    Done =>
        /\ (kind = "health_latest" =>
              /\ response.status = 200 <=> ResolvedAt(all_rows) # {}
              /\ response.status = 200 =>
                    \E i \in ResolvedAt(all_rows) :
                        /\ \A j \in ResolvedAt(all_rows) :
                              ResolveDate(all_rows[j][1]) <= ResolveDate(all_rows[i][1])
                        /\ response.body = RecordOf(headers, all_rows[i]))
        /\ (kind = "daily_summary" /\ DateAccepted(args.date)
               /\ ~KeyReadRaises(all_rows)
               /\ (\E i \in ResolvedAt(all_rows) :
                      ResolveDate(all_rows[i][1]) = strptime(args.date, "-").value)
               => response.status # 404)

-----------------------------------------------------------------------------
(* C6 *)

\* C6: no query raises on a ragged row, a row with no cells included, and every
\* returned record has exactly len(header) keys, the cells missing on the right
\* being the empty string and the extra cells being dropped.
C6_ExactlyLenHeaderKeys ==
    Done =>
        /\ ~(response.status = 500 /\ response.error_type = "IndexError")
        /\ (response.status = 200 /\ kind \in {"health_latest", "work_latest"} =>
              Cardinality(DOMAIN response.body) = Len(headers))
        /\ (response.status = 200 /\ kind = "compare" =>
              /\ Cardinality(DOMAIN response.body.today) = Len(headers)
              /\ Cardinality(DOMAIN response.body.yesterday) = Len(headers))
        /\ (response.status = 200 /\ kind = "daily_summary" =>
              /\ Cardinality(DOMAIN response.body.health) = Len(headers)
              /\ Len(picked) = 2 =>
                    Cardinality(DOMAIN response.body.work) = Len(work_headers))

-----------------------------------------------------------------------------
(* C7 *)

\* C7: compare needs two keyed rows: with fewer it fails with the
\* insufficient-data error and carries no today/yesterday pair; otherwise today
\* is the last keyed row and yesterday the keyed row just before it.
C7_CompareNeedsTwoRecords ==
    Done /\ kind = "compare" =>
        IF Cardinality(KeyedAt(all_rows)) < 2
        THEN /\ response.status = 400
             /\ "body" \notin DOMAIN response
        ELSE LET last == Max(KeyedAt(all_rows))
                 prev == Max(KeyedAt(all_rows) \ {last})
             IN  /\ response.status = 200
                 /\ response.body.today = RecordOf(headers, all_rows[last])
                 /\ response.body.yesterday = RecordOf(headers, all_rows[prev])

\* a compare that succeeded on three keyed rows whose first differs from the
\* one before the last
C7_Witness ==
    /\ Succeeded
    /\ kind = "compare"
    /\ Cardinality(KeyedAt(all_rows)) >= 3
    /\ response.body.yesterday # RecordOf(headers, all_rows[Min(KeyedAt(all_rows))])

-----------------------------------------------------------------------------
(* C8 *)

\* C8 as amended: the advice of a successful compare is the one fixed
\* ("stable") sentence, whatever the mood values of the two records are.
C8_AdviceIsFixed ==
    Succeeded /\ kind = "compare" => response.body.advice = ADVICE_FIXED

\* a compare whose two mood values are numbers, today's the greater, and whose
\* advice is nevertheless the fixed sentence
C8_Witness ==
    /\ Succeeded
    /\ kind = "compare"
    /\ COL_MOOD \in DOMAIN response.body.today
    /\ IsNumber(response.body.today[COL_MOOD])
    /\ IsNumber(response.body.yesterday[COL_MOOD])
    /\ IntOf(response.body.today[COL_MOOD]) > IntOf(response.body.yesterday[COL_MOOD])
    /\ response.body.advice = ADVICE_FIXED

\* C8 as stated: the advice follows the mood field: improved when today's
\* number is the greater, declined when it is the smaller, stable otherwise.
C8_AdviceFollowsMood ==
    Succeeded /\ kind = "compare" =>
        response.body.advice =
            advice_by_mood(response.body.today, response.body.yesterday)

-----------------------------------------------------------------------------
(* C9 *)

\* C9: a daily summary whose date has a health row but no work row succeeds
\* with an empty work record and a comment that carries "-" for the morning and
\* the afternoon activity.
C9_MissingWorkShownAsDashes ==
    Done /\ kind = "daily_summary" /\ DateAccepted(args.date)
         /\ PrefixAt(all_rows, args.date) # {}
         /\ all_work_rows # <<>>
         /\ PrefixAt(all_work_rows, args.date) = {}
    =>  /\ response.status = 200
        /\ response.body.work = EmptyDict
        /\ response.body.comment =
              args.date \o " summary: sleep "
                  \o DictGet(response.body.health, COL_SLEEP, "-") \o ", mood "
                  \o DictGet(response.body.health, COL_MOOD, "-") \o "."
                  \o " am: -, pm: -."

-----------------------------------------------------------------------------
(* C10 *)

\* C10: a daily summary whose date no health row carries fails with 404 and
\* returns no result, whatever the work tab holds; when several health rows
\* carry the date, the last of them in grid order is the one used.
C10_NoHealthRowIsNotFound ==
    Done /\ kind = "daily_summary" /\ DateAccepted(args.date) =>
        IF PrefixAt(all_rows, args.date) = {}
        THEN /\ response.status = 404
             /\ "body" \notin DOMAIN response
        ELSE response.status = 200 =>
                response.body.health =
                    RecordOf(headers, all_rows[Max(PrefixAt(all_rows, args.date))])

====
